---- MODULE Spec2Model ----
(***************************************************************************)
(* A model of four parts of the repository:                                *)
(*   - the container registry stack component, as exercised by             *)
(*     tests/unit/container_registries/test_base_container_registry.py;    *)
(*   - the KServe deployer step utilities of                               *)
(*     zenml/integrations/kserve/steps/kserve_step_utils.py, run against   *)
(*     a model of the artifact store's file system;                        *)
(*   - the pytorch_model_trainer step of the label studio example and its  *)
(*     train_model loop, one epoch at a time;                              *)
(*   - the kserve_pytorch_pipeline example, as the graph of its steps.     *)
(* Strings that the code inspects character by character (registry URIs,   *)
(* image names) are sequences of one-character strings.  Paths are         *)
(* sequences of path components, so that os.path.join is concatenation.    *)
(***************************************************************************)
EXTENDS Integers, Sequences, FiniteSets, TLC

VARIABLES
    registry,     \* the constructed StubContainerRegistry, or NoRegistry
    ctor_uri,     \* the uri argument the registry was constructed with
    pushed,       \* calls received by the mocked docker_utils.push_docker_image
    push_result,  \* outcome of the last push_image call
    files,        \* file system: path -> content, for every existing file
    dirs,         \* file system: the set of existing directories
    config,       \* the caller's KServeDeployerStepConfig
    runs,         \* number of deployer step runs so far
    tmp,          \* number of temporary names handed out by tempfile
    call,         \* record of the last prepare_*_service_config call
    saved,        \* the artifacts saved as artifact.json, by directory
    loaded,       \* what the last load_from_json_zenml_artifact call built
    trainer,      \* the pytorch_model_trainer step and its train_model loop
    pipeline      \* the run of kserve_pytorch_pipeline

vars ==
    <<registry, ctor_uri, pushed, push_result, files, dirs, config, runs, tmp, call,
      saved, loaded, trainer, pipeline>>

registry_vars == <<registry, ctor_uri, pushed, push_result>>

kserve_vars == <<files, dirs, config, runs, tmp, call>>

artifact_vars == <<saved, loaded>>

example_vars == <<trainer, pipeline>>

None == "None"

-----------------------------------------------------------------------------
(* Bounds *)

\* longest generated registry URI over the alphabet {"a", "/"}
MaxUriLen == 3

\* longest generated image name over the alphabet {"a", "/"}
MaxImageLen == 2

\* most push_image calls on one registry
MaxPushes == 2

\* most deployer step runs in one behaviour
MaxRuns == 2

\* most entries of the trainer step's labels argument
MaxLabels == 1

\* size of the validation dataset: the most correct predictions in an epoch
MaxCorrect == 2

\* datasets the pipeline's build_data_loaders step may load
MaxDatasets == 2

\* distinct models the pipeline's trainer step may produce
MaxModels == 3

\* highest accuracy level the pipeline's evaluator step may report
MaxAccuracy == 3

-----------------------------------------------------------------------------
(* Character strings *)

RECURSIVE StringsUpTo(_, _)
StringsUpTo(alphabet, n) ==
    IF n = 0 THEN {<< >>}
    ELSE LET shorter == StringsUpTo(alphabet, n - 1)
         IN  shorter \cup {Append(s, c) : s \in shorter, c \in alphabet}

\* str.rstrip("/") keeping only one pass: removes a single trailing slash
rstrip_once(s) ==
    IF Len(s) > 0 /\ s[Len(s)] = "/" THEN SubSeq(s, 1, Len(s) - 1) ELSE s

\* str.rstrip("/")
RECURSIVE rstrip_slash(_)
rstrip_slash(s) ==
    IF Len(s) > 0 /\ s[Len(s)] = "/"
    THEN rstrip_slash(SubSeq(s, 1, Len(s) - 1))
    ELSE s

\* a substring test where a prefix test is meant
contains(s, prefix) ==
    \E i \in 0..Len(s) :
        /\ i + Len(prefix) <= Len(s)
        /\ SubSeq(s, i + 1, i + Len(prefix)) = prefix

\* str.startswith
startswith(s, prefix) ==
    /\ Len(prefix) <= Len(s)
    /\ \A i \in 1..Len(prefix) : s[i] = prefix[i]

Digits == {"0", "1", "2", "3", "4", "5", "6", "7", "8", "9"}

LocalhostColon == <<"l", "o", "c", "a", "l", "h", "o", "s", "t", ":">>

-----------------------------------------------------------------------------
(* The strings of the container registry tests *)

S_test_slash == <<"t", "e", "s", "t", "/">>
S_test == <<"t", "e", "s", "t">>
S_localhost_8000 == LocalhostColon \o <<"8", "0", "0", "0">>
S_localhost == <<"l", "o", "c", "a", "l", "h", "o", "s", "t">>
S_gcr_io == <<"g", "c", "r", ".", "i", "o">>
S_some_uri == <<"s", "o", "m", "e", "_", "u", "r", "i">>
S_wrong_uri == <<"w", "r", "o", "n", "g", "_", "u", "r", "i">>
S_image_name == <<"/", "i", "m", "a", "g", "e", "_", "n", "a", "m", "e">>

TestUris ==
    {<< >>, S_test_slash, S_localhost_8000, S_localhost_8000 \o <<"/">>,
     S_localhost, S_gcr_io, S_some_uri}

TestImageNames ==
    {S_some_uri \o S_image_name, S_wrong_uri \o S_image_name,
     S_localhost_8000 \o S_image_name}

UriInputs == TestUris \cup StringsUpTo({"a", "/"}, MaxUriLen)

ImageInputs == TestImageNames \cup StringsUpTo({"a", "/"}, MaxImageLen)

Usernames == {None, "username"}
Passwords == {None, "password"}
Secrets == {None, "secret"}

-----------------------------------------------------------------------------
(* BaseContainerRegistry *)

NoRegistry == [flavor |-> None]

\* the registry object after construction and field validation
StubContainerRegistry(uri, username, password, authentication_secret) ==
    [flavor |-> "test",
     uri |-> rstrip_slash(uri),
     username |-> username,
     password |-> password,
     authentication_secret |-> authentication_secret]

requires_authentication_any(r) ==
    r.username # None \/ r.password # None \/ r.authentication_secret # None

requires_authentication(r) ==
    \/ (r.username # None /\ r.password # None)
    \/ r.authentication_secret # None

is_local_five_digits(r) ==
    /\ startswith(r.uri, LocalhostColon)
    /\ Len(r.uri) - Len(LocalhostColon) = 5
    /\ \A i \in (Len(LocalhostColon) + 1)..Len(r.uri) : r.uri[i] \in Digits

\* the URI is localhost followed by a port of four or five digits
is_local(r) ==
    /\ startswith(r.uri, LocalhostColon)
    /\ Len(r.uri) - Len(LocalhostColon) \in {4, 5}
    /\ \A i \in (Len(LocalhostColon) + 1)..Len(r.uri) : r.uri[i] \in Digits

push_allowed_substring(r, image_name) == contains(image_name, r.uri)

\* the check push_image makes before it hands the image to docker
push_allowed(r, image_name) == startswith(image_name, r.uri)

Construct(uri, username, password, authentication_secret) ==
    /\ registry = NoRegistry
    /\ registry' = StubContainerRegistry(uri, username, password,
                                         authentication_secret)
    /\ ctor_uri' = uri
    /\ pushed' = << >>
    /\ push_result' = [image_name |-> None, outcome |-> None]
    /\ UNCHANGED <<kserve_vars, artifact_vars, example_vars>>

push_image(image_name) ==
    /\ registry # NoRegistry
    /\ Len(pushed) < MaxPushes
    /\ IF push_allowed(registry, image_name)
       THEN /\ pushed' = Append(pushed, image_name)
            /\ push_result' = [image_name |-> image_name, outcome |-> "returned"]
       ELSE /\ pushed' = pushed
            /\ push_result' = [image_name |-> image_name, outcome |-> "ValueError"]
    /\ UNCHANGED <<registry, ctor_uri>>
    /\ UNCHANGED <<kserve_vars, artifact_vars, example_vars>>

-----------------------------------------------------------------------------
(* The artifact store's file system, as fileio and io_utils act on it *)

ARTIFACT_FILE == "artifact.json"

NoPath == << >>

\* the directories a path lies in, the root excluded
Parents(p) == {SubSeq(p, 1, n) : n \in 1..(Len(p) - 1)}

IsUnder(p, dir) == Len(p) > Len(dir) /\ SubSeq(p, 1, Len(dir)) = dir

Rebase(p, src, dst) == dst \o SubSeq(p, Len(src) + 1, Len(p))

Entry(op, src, dst) == [op |-> op, src |-> src, dst |-> dst]

\* fileio.makedirs
makedirs(st, p) ==
    [st EXCEPT !.dirs = @ \cup Parents(p) \cup {p},
               !.log = Append(@, Entry("makedirs", NoPath, p))]

\* fileio.exists, without the record that the check was made
path_exists(st, p) == p \in DOMAIN st.files \/ p \in st.dirs

\* fileio.exists
exists(st, p) == [st EXCEPT !.log = Append(@, Entry("exists", p, NoPath))]

can_copy(st, src) == src \in DOMAIN st.files

\* fileio.copy of an existing file
copy(st, src, dst) ==
    [st EXCEPT !.files = (dst :> st.files[src]) @@ @,
               !.log = Append(@, Entry("copy", src, dst))]

\* io_utils.copy_dir: every file below src, at the same relative path below dst
copy_dir(st, src, dst) ==
    LET moved == {f \in DOMAIN st.files : IsUnder(f, src)}
        placed == {Rebase(f, src, dst) : f \in moved}
        copied == [q \in placed |->
                     st.files[CHOOSE f \in moved : Rebase(f, src, dst) = q]]
    IN  [st EXCEPT !.files = copied @@ @,
                   !.dirs = @ \cup UNION {Parents(q) : q \in placed},
                   !.log = Append(@, Entry("copy_dir", src, dst))]

\* a file written by this process
write(st, p, content) == [st EXCEPT !.files = (p :> content) @@ @]

\* tempfile.mkdtemp(prefix="zenml-pytorch-temp-")
mkdtemp_name(st) == <<"tmp", "zenml-pytorch-temp-" \o ToString(st.tmp)>>

mkdtemp(st) ==
    [st EXCEPT !.dirs = @ \cup {<<"tmp">>, mkdtemp_name(st)}, !.tmp = @ + 1]

\* tempfile.NamedTemporaryFile(suffix=..., dir=..., delete=False)
temp_file_name(st, directory, suffix) ==
    Append(directory, "tmp" \o ToString(st.tmp) \o suffix)

temp_file(st, directory, suffix, content) ==
    [write(st, temp_file_name(st, directory, suffix), content)
        EXCEPT !.tmp = @ + 1]

-----------------------------------------------------------------------------
(* Inputs of the deployer step *)

ModelUris == {<<"artifacts", "trainer", "1">>, <<"artifacts", "trainer", "2">>}

PartialModelUri == <<"artifacts", "trainer", "1">>

FullModelUri == <<"artifacts", "trainer", "2">>

\* files a model artifact directory may hold, relative to it
ModelFiles == {<<"model">>, <<"checkpoint.pt">>, <<"variables", "variables.index">>}

OutputUri(n) == <<"artifacts", "deployer", ToString(n)>>

UserTorchConfig == <<"home", "config.properties">>

Data(uri, rel) == [kind |-> "data", name |-> rel[Len(rel)], body |-> uri]

UserProperties == [kind |-> "properties", name |-> "user", body |-> UserTorchConfig]

ModelNames == {"mnist", "resnet"}

Predictors == {"tensorflow", "sklearn", "xgboost"}

\* Optional[str]: None, the empty string, or a path
NoneStr == [is_none |-> TRUE, path |-> NoPath]

Str(p) == [is_none |-> FALSE, path |-> p]

truthy(s) == ~s.is_none /\ s.path # NoPath

NoParameters == [is_none |-> TRUE]

TorchServeParameters(torch_config) ==
    [is_none |-> FALSE,
     model_class |-> "mnist.py",
     handler |-> "mnist_handler.py",
     model_version |-> "1.0",
     torch_config |-> torch_config]

CustomDeployParameters ==
    [is_none |-> FALSE, predict_function |-> "custom_predict"]

ServiceConfigs ==
    [predictor : Predictors, model_name : ModelNames, model_uri : {NoPath}]

Configs ==
    [service_config : ServiceConfigs,
     torch_serve_paramters :
        {NoParameters} \cup
        {TorchServeParameters(c) : c \in {NoneStr, Str(NoPath), Str(UserTorchConfig)}},
     custom_deploy_paramters : {NoParameters, CustomDeployParameters}]

\* an ml-metadata Artifact
Artifact(uri, datatype, materializer) ==
    [uri |-> uri, datatype |-> datatype, materializer |-> materializer]

RegisteredArtifact(uri) ==
    IF uri = PartialModelUri
    THEN Artifact(uri, "torch.nn.Module", "PyTorchModuleMaterializer")
    ELSE Artifact(uri, "sklearn.base.BaseEstimator", "SklearnMaterializer")

NoContext == [stack |-> FALSE, artifacts |-> [u \in ModelUris |-> << >>]]

\* a StepContext: its stack, if any, and what the stack's metadata store holds
Contexts ==
    {NoContext,
     [stack |-> TRUE, artifacts |-> [u \in ModelUris |-> <<RegisteredArtifact(u)>>]],
     [stack |-> TRUE,
      artifacts |-> [u \in ModelUris |->
                       IF u = FullModelUri THEN <<RegisteredArtifact(u)>> ELSE << >>]]}

-----------------------------------------------------------------------------
(* kserve_step_utils *)

NoValue == [predictor |-> None]

Raised(st, exception, cfg) ==
    [st |-> st, outcome |-> exception, value |-> NoValue, config |-> cfg]

\* the model_uri assigned on the caller's service_config, not on a copy
Returned_in_place(st, cfg, uri) ==
    [st |-> st,
     outcome |-> "returned",
     value |-> [cfg.service_config EXCEPT !.model_uri = uri],
     config |-> [cfg EXCEPT !.service_config.model_uri = uri]]

\* service_config = config.service_config.copy();
\* service_config.model_uri = uri; return service_config
Returned(st, cfg, uri) ==
    [st |-> st,
     outcome |-> "returned",
     value |-> [cfg.service_config EXCEPT !.model_uri = uri],
     config |-> cfg]

\* the model's content as TorchServe's archiver packages it
Mar(args, serialized) ==
    [kind |-> "mar",
     name |-> args.model_name,
     body |-> <<serialized.name, args.model_file, args.handler, args.version>>]

\* the config.properties text that generate_model_deployer_config writes
GeneratedProperties(model_name) ==
    [kind |-> "properties",
     name |-> "generated",
     body |-> <<"model_store=/mnt/models/model-store",
                "marName=" \o model_name \o ".mar">>]

\* json.dump of the artifact's datatype and materializer properties
JsonDump(artifact) ==
    [kind |-> "json",
     name |-> ARTIFACT_FILE,
     body |-> <<"datatype", artifact.datatype,
                "materializer", artifact.materializer>>]

sklearn_branch_unchecked(st, model_file, served_model_uri, cfg) ==
    IF ~can_copy(st, model_file)
    THEN Raised(st, "FileNotFoundError", cfg)
    ELSE Returned(copy(st, model_file, Append(served_model_uri, "model.joblib")),
                  cfg, served_model_uri)

\* the sklearn branch of prepare_service_config
sklearn_branch(st, model_file, served_model_uri, cfg) ==
    LET s1 == exists(st, model_file)
    IN  IF ~path_exists(s1, model_file)
        THEN Raised(s1, "RuntimeError", cfg)
        ELSE IF ~can_copy(s1, model_file)
        THEN Raised(s1, "IsADirectoryError", cfg)
        ELSE Returned(copy(s1, model_file,
                           Append(served_model_uri, "model.joblib")),
                      cfg, served_model_uri)

tensorflow_flat(st, model_uri, served_model_uri, cfg) ==
    Returned(copy_dir(st, model_uri, served_model_uri), cfg, served_model_uri)

\* the tensorflow branch of prepare_service_config
tensorflow_branch(st, model_uri, served_model_uri, cfg) ==
    Returned(copy_dir(st, model_uri, Append(served_model_uri, "1")),
             cfg, served_model_uri)

prepare_service_config(st, model_uri, output_artifact_uri, cfg) ==
    LET served_model_uri == Append(output_artifact_uri, "kserve")
        s1 == makedirs(st, served_model_uri)
    IN  IF cfg.service_config.predictor = "tensorflow"
        THEN tensorflow_branch(s1, model_uri, served_model_uri, cfg)
        ELSE IF cfg.service_config.predictor = "sklearn"
        THEN sklearn_branch(s1, Append(model_uri, "model"), served_model_uri, cfg)
        ELSE Returned(s1, cfg, model_uri)

\* model_archiver's package_model: on success it leaves
\* <export_path>/<model_name>.mar, otherwise nothing
package_model(st, args, succeeds) ==
    LET logged == [st EXCEPT !.log = Append(@, Entry("package_model",
                                                    args.serialized_file,
                                                    args.export_path))]
    IN  IF succeeds
        THEN write(logged, Append(args.export_path, args.model_name \o ".mar"),
                   Mar(args, st.files[args.serialized_file]))
        ELSE logged

\* generate_model_deployer_config: the name of the file it wrote
generate_model_deployer_config_name(st, directory) ==
    temp_file_name(st, directory, ".properties")

generate_model_deployer_config(st, model_name, directory) ==
    temp_file(st, directory, ".properties", GeneratedProperties(model_name))

\* the else branch: generate the file in temp_dir and copy it to the config folder
generate_config(st, cfg, temp_dir, config_propreties_uri) ==
    LET name == generate_model_deployer_config_name(st, temp_dir)
        s1 == generate_model_deployer_config(st, cfg.service_config.model_name,
                                            temp_dir)
    IN  [ok |-> TRUE,
         st |-> copy(s1, name, Append(config_propreties_uri, "config.properties"))]

config_always_generated(st, cfg, temp_dir, config_propreties_uri) ==
    generate_config(st, cfg, temp_dir, config_propreties_uri)

\* "Get or Generate the config file" of prepare_torch_service_config
get_or_generate_config(st, cfg, temp_dir, config_propreties_uri) ==
    LET target == Append(config_propreties_uri, "config.properties")
        torch_config == cfg.torch_serve_paramters.torch_config
    IN  IF truthy(torch_config)
        THEN IF can_copy(st, torch_config.path)
             THEN [ok |-> TRUE, st |-> copy(st, torch_config.path, target)]
             ELSE [ok |-> FALSE, st |-> st]
        ELSE generate_config(st, cfg, temp_dir, config_propreties_uri)

store_archive_unchecked(st, cfg, temp_dir, uris) ==
    LET mar == cfg.service_config.model_name \o ".mar"
        archived_model_uri == Append(temp_dir, mar)
    IN  IF ~can_copy(st, archived_model_uri)
        THEN Raised(st, "FileNotFoundError", cfg)
        ELSE LET s1 == copy(st, archived_model_uri,
                            Append(uris.served_model_uri, mar))
                 got == get_or_generate_config(s1, cfg, temp_dir,
                                               uris.config_propreties_uri)
             IN  IF got.ok
                 THEN Returned(got.st, cfg, uris.deployment_folder_uri)
                 ELSE Raised(got.st, "FileNotFoundError", cfg)

\* prepare_torch_service_config from the check of the archive onwards
store_archive(st, cfg, temp_dir, uris) ==
    LET mar == cfg.service_config.model_name \o ".mar"
        archived_model_uri == Append(temp_dir, mar)
        s1 == exists(st, archived_model_uri)
    IN  IF ~path_exists(s1, archived_model_uri)
        THEN Raised(s1, "RuntimeError", cfg)
        ELSE LET s2 == copy(s1, archived_model_uri,
                            Append(uris.served_model_uri, mar))
                 got == get_or_generate_config(s2, cfg, temp_dir,
                                               uris.config_propreties_uri)
             IN  IF got.ok
                 THEN Returned(got.st, cfg, uris.deployment_folder_uri)
                 ELSE Raised(got.st, "FileNotFoundError", cfg)

TorchModelArchiver(cfg, serialized_file, export_path) ==
    [model_name |-> cfg.service_config.model_name,
     serialized_file |-> serialized_file,
     model_file |-> cfg.torch_serve_paramters.model_class,
     handler |-> cfg.torch_serve_paramters.handler,
     export_path |-> export_path,
     version |-> cfg.torch_serve_paramters.model_version]

\* prepare_torch_service_config once the parameters are known to be set
archive_model(st, model_uri, cfg, archiver_succeeds, uris) ==
    LET temp_dir == mkdtemp_name(st)
        s1 == mkdtemp(st)
        tmp_model_uri == Append(temp_dir, "mnist.pt")
        checkpoint == Append(model_uri, "checkpoint.pt")
    IN  IF ~can_copy(s1, checkpoint)
        THEN Raised(s1, "FileNotFoundError", cfg)
        ELSE LET s2 == copy(s1, checkpoint, tmp_model_uri)
                 args == TorchModelArchiver(cfg, tmp_model_uri, temp_dir)
                 s3 == package_model(s2, args, archiver_succeeds)
             IN  store_archive(s3, cfg, temp_dir, uris)

torch_parameters_unchecked(st, model_uri, cfg, archiver_succeeds, uris) ==
    IF cfg.torch_serve_paramters.is_none
    THEN LET checkpoint == Append(model_uri, "checkpoint.pt")
             s1 == IF can_copy(st, checkpoint)
                   THEN copy(mkdtemp(st), checkpoint,
                             Append(mkdtemp_name(st), "mnist.pt"))
                   ELSE st
         IN  Raised(s1, "RuntimeError", cfg)
    ELSE archive_model(st, model_uri, cfg, archiver_succeeds, uris)

\* the parameter check of prepare_torch_service_config and what follows it
torch_with_parameters(st, model_uri, cfg, archiver_succeeds, uris) ==
    IF cfg.torch_serve_paramters.is_none
    THEN Raised(st, "RuntimeError", cfg)
    ELSE archive_model(st, model_uri, cfg, archiver_succeeds, uris)

\* the folders prepare_torch_service_config lays out below the output artifact
TorchFolders(output_artifact_uri) ==
    LET deployment_folder_uri == Append(output_artifact_uri, "kserve")
    IN  [deployment_folder_uri |-> deployment_folder_uri,
         served_model_uri |-> Append(deployment_folder_uri, "model-store"),
         config_propreties_uri |-> Append(deployment_folder_uri, "config")]

prepare_torch_service_config(st, model_uri, output_artifact_uri, cfg, succeeds) ==
    LET uris == TorchFolders(output_artifact_uri)
        s1 == makedirs(makedirs(st, uris.served_model_uri),
                       uris.config_propreties_uri)
    IN  torch_with_parameters(s1, model_uri, cfg, succeeds, uris)

\* save_to_json_zenml_artifact
save_to_json_zenml_artifact(st, served_model_uri, artifact) ==
    LET name == temp_file_name(st, <<"tmp">>, ".json")
        s1 == temp_file(st, <<"tmp">>, ".json", JsonDump(artifact))
    IN  copy(s1, name, Append(served_model_uri, ARTIFACT_FILE))

stack_unchecked(st, model_uri, served_model_uri, cfg, context) ==
    LET s1 == [st EXCEPT !.log = Append(@, Entry("get_artifacts_by_uri",
                                                model_uri, NoPath))]
        artifact == context.artifacts[model_uri]
    IN  IF ~context.stack
        THEN Raised(s1, "DoesNotExistException", cfg)
        ELSE IF artifact = << >>
        THEN Raised(s1, "IndexError", cfg)
        ELSE Returned(save_to_json_zenml_artifact(s1, served_model_uri,
                                                  artifact[1]),
                      cfg, served_model_uri)

\* prepare_custom_service_config from the check of the active stack onwards
save_artifact_of_stack(st, model_uri, served_model_uri, cfg, context) ==
    IF ~context.stack
    THEN Raised(st, "DoesNotExistException", cfg)
    ELSE LET s1 == [st EXCEPT !.log = Append(@, Entry("get_artifacts_by_uri",
                                                     model_uri, NoPath))]
             artifact == context.artifacts[model_uri]
         IN  IF artifact = << >>
             THEN Raised(s1, "IndexError", cfg)
             ELSE Returned(save_to_json_zenml_artifact(s1, served_model_uri,
                                                       artifact[1]),
                           cfg, served_model_uri)

prepare_custom_service_config(st, model_uri, output_artifact_uri, cfg, context) ==
    IF cfg.custom_deploy_paramters.is_none
    THEN Raised(st, "RuntimeError", cfg)
    ELSE LET served_model_uri == Append(output_artifact_uri, "kserve")
             s1 == copy_dir(makedirs(st, served_model_uri), model_uri,
                            served_model_uri)
         IN  save_artifact_of_stack(s1, model_uri, served_model_uri, cfg, context)

-----------------------------------------------------------------------------
(* The deployer step calling the utilities *)

NoCall ==
    [fn |-> None, model_uri |-> NoPath, output_artifact_uri |-> NoPath,
     context |-> NoContext, outcome |-> None, value |-> NoValue, log |-> << >>]

\* the file system as a call finds it
State == [files |-> files, dirs |-> dirs, tmp |-> tmp, log |-> << >>]

\* what a call leaves behind
Commit(fn, model_uri, output_artifact_uri, context, r) ==
    /\ files' = r.st.files
    /\ dirs' = r.st.dirs
    /\ tmp' = r.st.tmp
    /\ config' = r.config
    /\ runs' = runs + 1
    /\ call' = [fn |-> fn, model_uri |-> model_uri,
                output_artifact_uri |-> output_artifact_uri,
                context |-> context,
                outcome |-> r.outcome, value |-> r.value, log |-> r.st.log]
    /\ UNCHANGED <<registry_vars, artifact_vars, example_vars>>

PrepareServiceConfig ==
    /\ runs < MaxRuns
    /\ \E model_uri \in ModelUris :
          Commit("prepare_service_config", model_uri, OutputUri(runs + 1),
                 NoContext,
                 prepare_service_config(State, model_uri, OutputUri(runs + 1),
                                        config))

PrepareTorchServiceConfig ==
    /\ runs < MaxRuns
    /\ \E model_uri \in ModelUris, archiver_succeeds \in BOOLEAN :
          Commit("prepare_torch_service_config", model_uri, OutputUri(runs + 1),
                 NoContext,
                 prepare_torch_service_config(State, model_uri,
                                              OutputUri(runs + 1), config,
                                              archiver_succeeds))

PrepareCustomServiceConfig ==
    /\ runs < MaxRuns
    /\ \E model_uri \in ModelUris, context \in Contexts :
          Commit("prepare_custom_service_config", model_uri, OutputUri(runs + 1),
                 context,
                 prepare_custom_service_config(State, model_uri,
                                               OutputUri(runs + 1), config,
                                               context))

\* the artifact store before the deployer step runs
InitialFiles(present) ==
    LET paths == {FullModelUri \o f : f \in ModelFiles}
                 \cup {PartialModelUri \o f : f \in present}
                 \cup {UserTorchConfig}
    IN  [p \in paths |->
           IF p = UserTorchConfig THEN UserProperties
           ELSE IF IsUnder(p, FullModelUri)
           THEN Data(FullModelUri, p)
           ELSE Data(PartialModelUri, p)]

InitialDirs(fs) == ModelUris \cup UNION {Parents(p) : p \in DOMAIN fs}

\* no artifact saved or loaded yet
ArtifactIdle == saved = << >> /\ loaded = [outcome |-> None]

\* the example steps and pipeline not started
ExamplesIdle == trainer = [pc |-> "idle"] /\ pipeline = [pc |-> "idle"]

RegistryIdle ==
    /\ registry = NoRegistry
    /\ ctor_uri = << >>
    /\ pushed = << >>
    /\ push_result = [image_name |-> None, outcome |-> None]

Init ==
    /\ RegistryIdle
    /\ \E present \in SUBSET ModelFiles :
          /\ files = InitialFiles(present)
          /\ dirs = InitialDirs(InitialFiles(present))
    /\ config \in Configs
    /\ runs = 0
    /\ tmp = 0
    /\ call = NoCall
    /\ ArtifactIdle
    /\ ExamplesIdle

Next ==
    \/ PrepareServiceConfig
    \/ PrepareTorchServiceConfig
    \/ PrepareCustomServiceConfig

Spec == Init /\ [][Next]_vars

-----------------------------------------------------------------------------
(* The container registry tests *)

RegistryInit ==
    /\ RegistryIdle
    /\ files = InitialFiles({})
    /\ dirs = InitialDirs(InitialFiles({}))
    /\ config = CHOOSE c \in Configs : TRUE
    /\ runs = 0
    /\ tmp = 0
    /\ call = NoCall
    /\ ArtifactIdle
    /\ ExamplesIdle

ConstructRegistry ==
    \E uri \in UriInputs, username \in Usernames, password \in Passwords,
       authentication_secret \in Secrets :
          Construct(uri, username, password, authentication_secret)

PushImage == \E image_name \in ImageInputs : push_image(image_name)

RegistryNext == ConstructRegistry \/ PushImage

RegistrySpec == RegistryInit /\ [][RegistryNext]_vars

-----------------------------------------------------------------------------
(* Properties of the container registry *)

\* u is an initial segment of s, stated without str.startswith
IsPrefixOf(u, s) == \E n \in 0..Len(s) : SubSeq(s, 1, n) = u

Constructed == registry # NoRegistry

\* C1: push_image returns, and hands the image to docker, only for an image
\* name that starts with the registry's URI; for any other image name it
\* raises ValueError and docker receives no push.
C1_PushOnlyForMatchingUri ==
    /\ \A i \in 1..Len(pushed) : IsPrefixOf(registry.uri, pushed[i])
    /\ push_result.outcome # None =>
          /\ push_result.outcome \in {"returned", "ValueError"}
          /\ push_result.outcome = "returned" <=>
                IsPrefixOf(registry.uri, push_result.image_name)
          /\ push_result.outcome = "returned" =>
                /\ pushed # << >>
                /\ pushed[Len(pushed)] = push_result.image_name

\* a push that went through, then a push refused for the wrong URI
C1_Witness ==
    /\ Constructed
    /\ registry.uri = S_some_uri
    /\ pushed = <<S_some_uri \o S_image_name>>
    /\ push_result =
          [image_name |-> S_wrong_uri \o S_image_name, outcome |-> "ValueError"]

\* C2: the stored uri of a constructed registry never ends in "/": it is the
\* constructor's uri with all trailing slashes removed ("test/" gives "test"),
\* and a uri without a trailing slash is stored unchanged.
C2_TrailingSlashesRemoved ==
    Constructed =>
        /\ registry.uri = << >> \/ registry.uri[Len(registry.uri)] # "/"
        /\ IsPrefixOf(registry.uri, ctor_uri)
        /\ \A i \in (Len(registry.uri) + 1)..Len(ctor_uri) : ctor_uri[i] = "/"
        /\ (ctor_uri = << >> \/ ctor_uri[Len(ctor_uri)] # "/") =>
              registry.uri = ctor_uri
        /\ ctor_uri = S_test_slash => registry.uri = S_test

\* a registry constructed with two trailing slashes
C2_Witness ==
    /\ Constructed
    /\ ctor_uri = <<"a", "/", "/">>
    /\ registry.uri = <<"a">>

\* C3: requires_authentication is False without credentials, False with only
\* a username or only a password, and True with both a username and a
\* password or with an authentication secret.
C3_RequiresAuthentication ==
    Constructed =>
        LET u == registry.username # None
            p == registry.password # None
            s == registry.authentication_secret # None
        IN  /\ (~u /\ ~p /\ ~s) => ~requires_authentication(registry)
            /\ (u /\ ~p /\ ~s) => ~requires_authentication(registry)
            /\ (~u /\ p /\ ~s) => ~requires_authentication(registry)
            /\ (u /\ p) => requires_authentication(registry)
            /\ s => requires_authentication(registry)

\* a registry with only a username, which does not require authentication
C3_Witness ==
    /\ Constructed
    /\ registry.username = "username"
    /\ registry.password = None
    /\ registry.authentication_secret = None
    /\ ~requires_authentication(registry)

\* the part of a URI before its first ":" or "/"
Host(uri) ==
    LET stops == {i \in 1..Len(uri) : uri[i] \in {":", "/"}}
    IN  IF stops = {} THEN uri
        ELSE SubSeq(uri, 1, (CHOOSE i \in stops : \A j \in stops : i <= j) - 1)

-----------------------------------------------------------------------------
(* Properties of the KServe step utilities *)

\* the served-model directory of the last call
Served == Append(call.output_artifact_uri, "kserve")

FilesUnder(dir) == {p \in DOMAIN files : IsUnder(p, dir)}

\* the log entries of the last call made by one operation
Logged(op) == {i \in 1..Len(call.log) : call.log[i].op = op}

LastServiceCall(predictor) ==
    /\ call.fn = "prepare_service_config"
    /\ config.service_config.predictor = predictor

\* C5: prepare_service_config with predictor "sklearn": without a file
\* <model_uri>/model it raises RuntimeError and no file is copied into the
\* served-model directory; with it, the file is copied to
\* <output_artifact_uri>/kserve/model.joblib and the returned config's
\* model_uri is <output_artifact_uri>/kserve.
C5_SklearnModelFile ==
    LastServiceCall("sklearn") =>
        LET model_file == Append(call.model_uri, "model")
            joblib == Append(Served, "model.joblib")
        IN  IF model_file \in DOMAIN files
            THEN /\ call.outcome = "returned"
                 /\ joblib \in DOMAIN files
                 /\ files[joblib] = files[model_file]
                 /\ call.value.model_uri = Served
            ELSE /\ call.outcome = "RuntimeError"
                 /\ call.value = NoValue
                 /\ FilesUnder(Served) = {}
                 /\ Logged("copy") = {}

\* a sklearn call on a model directory without the file "model"
C5_Witness ==
    /\ LastServiceCall("sklearn")
    /\ Append(call.model_uri, "model") \notin DOMAIN files
    /\ Append(call.model_uri, "checkpoint.pt") \in DOMAIN files
    /\ call.outcome = "RuntimeError"

\* C6: prepare_service_config with predictor "tensorflow" copies the whole
\* model directory into <output_artifact_uri>/kserve/1 and returns a config
\* whose model_uri is <output_artifact_uri>/kserve: neither the numbered
\* subdirectory nor the original model_uri.
C6_TensorflowVersionDirectory ==
    LastServiceCall("tensorflow") =>
        LET version == Append(Served, "1")
        IN  /\ call.outcome = "returned"
            /\ call.value.model_uri = Served
            /\ call.value.model_uri # version
            /\ call.value.model_uri # call.model_uri
            /\ \A f \in FilesUnder(call.model_uri) :
                  LET q == version \o SubSeq(f, Len(call.model_uri) + 1, Len(f))
                  IN  q \in DOMAIN files /\ files[q] = files[f]
            /\ Cardinality(FilesUnder(Served)) =
                  Cardinality(FilesUnder(call.model_uri))
            /\ FilesUnder(Served) = FilesUnder(version)

\* a tensorflow call on a model directory with a nested file
C6_Witness ==
    /\ LastServiceCall("tensorflow")
    /\ call.model_uri = FullModelUri
    /\ <<"artifacts", "deployer", "1", "kserve", "1", "variables",
         "variables.index">> \in DOMAIN files
    /\ call.outcome = "returned"

LastTorchCall == call.fn = "prepare_torch_service_config"

ModelStore == Append(Served, "model-store")

ConfigProperties == Served \o <<"config", "config.properties">>

MarName == config.service_config.model_name \o ".mar"

\* C7: whenever prepare_torch_service_config returns, the output holds
\* kserve/model-store/<model_name>.mar and kserve/config/config.properties,
\* the returned model_uri is <output_artifact_uri>/kserve, and
\* config.properties is the user's torch_config file when one is set and the
\* generated file otherwise.
C7_TorchLayout ==
    (LastTorchCall /\ call.outcome = "returned") =>
        LET torch_config == config.torch_serve_paramters.torch_config
            user_set == ~torch_config.is_none /\ Len(torch_config.path) > 0
        IN  /\ Append(ModelStore, MarName) \in DOMAIN files
            /\ files[Append(ModelStore, MarName)].kind = "mar"
            /\ files[Append(ModelStore, MarName)].name =
                  config.service_config.model_name
            /\ ConfigProperties \in DOMAIN files
            /\ call.value.model_uri = Served
            /\ user_set => files[ConfigProperties] = files[torch_config.path]
            /\ ~user_set =>
                  /\ files[ConfigProperties].kind = "properties"
                  /\ files[ConfigProperties].name = "generated"
            /\ Cardinality({i \in Logged("copy") :
                              call.log[i].dst = ConfigProperties}) = 1

\* a torch call that returned with the user's torch_config in place
C7_Witness ==
    /\ LastTorchCall
    /\ call.outcome = "returned"
    /\ config.torch_serve_paramters.torch_config = Str(UserTorchConfig)
    /\ files[ConfigProperties] = UserProperties

\* the archiver ran in the last call and left no <temp_dir>/<model_name>.mar
ArchiveMissing ==
    /\ LastTorchCall
    /\ \E i \in Logged("package_model") :
          Append(call.log[i].dst, MarName) \notin DOMAIN files

\* C8: in prepare_torch_service_config, if the archiver produced no
\* <temp_dir>/<model_name>.mar, RuntimeError is raised, nothing is copied into
\* model-store, no config.properties is written and no config is returned;
\* a copy into model-store is always preceded by the check of its source.
C8_ArchiveChecked ==
    /\ ArchiveMissing =>
          /\ call.outcome = "RuntimeError"
          /\ call.value = NoValue
          /\ FilesUnder(ModelStore) = {}
          /\ ConfigProperties \notin DOMAIN files
    /\ LastTorchCall =>
          \A i \in Logged("copy") :
              IsUnder(call.log[i].dst, ModelStore) =>
                  \E j \in Logged("exists") :
                      j < i /\ call.log[j].src = call.log[i].src

\* a torch call whose archiver ran on the checkpoint and produced nothing
C8_Witness ==
    /\ ArchiveMissing
    /\ Logged("copy") # {}
    /\ call.outcome = "RuntimeError"

NothingCopiedOrArchived ==
    /\ Logged("copy") = {}
    /\ Logged("copy_dir") = {}
    /\ Logged("package_model") = {}
    /\ FilesUnder(call.output_artifact_uri) = {}

\* C9: prepare_torch_service_config raises RuntimeError when
\* torch_serve_paramters is None, and prepare_custom_service_config raises
\* RuntimeError when custom_deploy_paramters is None; in both cases no model
\* file is copied or archived and no config is returned.
C9_ParametersRequired ==
    /\ (LastTorchCall /\ config.torch_serve_paramters.is_none) =>
          /\ call.outcome = "RuntimeError"
          /\ call.value = NoValue
          /\ NothingCopiedOrArchived
    /\ (call.fn = "prepare_custom_service_config"
            /\ config.custom_deploy_paramters.is_none) =>
          /\ call.outcome = "RuntimeError"
          /\ call.value = NoValue
          /\ NothingCopiedOrArchived

\* a torch call without parameters on a model that has a checkpoint
C9_Witness ==
    /\ LastTorchCall
    /\ config.torch_serve_paramters.is_none
    /\ Append(call.model_uri, "checkpoint.pt") \in DOMAIN files
    /\ call.outcome = "RuntimeError"

LastCustomCall == call.fn = "prepare_custom_service_config"

NoStackEffects ==
    /\ call.outcome = "DoesNotExistException"
    /\ call.value = NoValue
    /\ Logged("get_artifacts_by_uri") = {}
    /\ Append(Served, ARTIFACT_FILE) \notin DOMAIN files

\* C10 as stated: prepare_custom_service_config raises DoesNotExistException
\* whenever the step context has no active stack, without querying the
\* metadata store, writing artifact.json or returning a config.
C10_NoStackAlwaysDoesNotExist ==
    (LastCustomCall /\ ~call.context.stack) => NoStackEffects

\* C10, amended: prepare_custom_service_config with custom_deploy_paramters
\* set raises DoesNotExistException when the step context has no active
\* stack, without querying the metadata store, writing artifact.json or
\* returning a config.
C10_NoStackDoesNotExist ==
    (LastCustomCall /\ ~config.custom_deploy_paramters.is_none
        /\ ~call.context.stack) => NoStackEffects

\* a custom call without a stack, after the model files were copied
C10_Witness ==
    /\ LastCustomCall
    /\ ~call.context.stack
    /\ call.outcome = "DoesNotExistException"
    /\ FilesUnder(Served) # {}

-----------------------------------------------------------------------------
(* The pytorch_model_trainer step of the label studio example *)

\* nothing has run yet
AllIdle == RegistryInit

\* the num_epochs the step passes to train_model
num_epochs == 5

\* a label as the annotation step hands it over
Label == [image |-> "image.png", label |-> "cat"]

RECURSIVE ListsUpTo(_, _)
ListsUpTo(elements, n) ==
    IF n = 0 THEN {<< >>}
    ELSE LET shorter == ListsUpTo(elements, n - 1)
         IN  shorter \cup {Append(s, e) : s \in shorter, e \in elements}

LabelLists == ListsUpTo({Label}, MaxLabels)

\* the weights of the pretrained squeezenet, before any optimizer step
Pretrained == 0

NoModule == [kind |-> "None", wts |-> Pretrained]

Module(wts) == [kind |-> "nn.Module", wts |-> wts]

\* the if branch of the step: it prints and falls off the end of the function
with_labels(labels) ==
    [pc |-> "returned", labels |-> labels, epoch |-> 0, model_wts |-> Pretrained,
     best_model_wts |-> Pretrained, best_acc |-> 0, val_acc_history |-> << >>,
     result |-> NoModule]

\* the else branch up to the first epoch of train_model
start_training(labels) ==
    [pc |-> "training", labels |-> labels, epoch |-> 0, model_wts |-> Pretrained,
     best_model_wts |-> Pretrained, best_acc |-> 0, val_acc_history |-> << >>,
     result |-> NoModule]

\* the training phase of an epoch: the optimizer steps change the weights
train_phase(tr) == [tr EXCEPT !.model_wts = @ + 1]

keep_best_or_equal(tr, epoch_acc) ==
    IF epoch_acc >= tr.best_acc
    THEN [tr EXCEPT !.best_acc = epoch_acc, !.best_model_wts = tr.model_wts]
    ELSE tr

\* "deep copy the model": the snapshot taken on a strictly better accuracy
keep_best(tr, epoch_acc) ==
    IF epoch_acc > tr.best_acc
    THEN [tr EXCEPT !.best_acc = epoch_acc, !.best_model_wts = tr.model_wts]
    ELSE tr

\* the validation phase of an epoch, with epoch_acc correct predictions
val_phase(tr, epoch_acc) ==
    [keep_best(tr, epoch_acc) EXCEPT
        !.val_acc_history = Append(@, epoch_acc)]

\* one pass of the loop over the epochs
train_epoch(tr, epoch_acc) ==
    [val_phase(train_phase(tr), epoch_acc) EXCEPT !.epoch = @ + 1]

\* model.load_state_dict(best_model_wts); return model, and the step's return
return_model(tr) ==
    [tr EXCEPT !.pc = "returned",
               !.model_wts = tr.best_model_wts,
               !.result = Module(tr.best_model_wts)]

CallTrainer ==
    /\ trainer.pc = "idle"
    /\ \E labels \in LabelLists :
          trainer' = IF labels # << >> THEN with_labels(labels)
                     ELSE start_training(labels)
    /\ UNCHANGED <<registry_vars, kserve_vars, artifact_vars, pipeline>>

TrainEpoch ==
    /\ trainer.pc = "training"
    /\ trainer.epoch < num_epochs
    /\ \E epoch_acc \in 0..MaxCorrect : trainer' = train_epoch(trainer, epoch_acc)
    /\ UNCHANGED <<registry_vars, kserve_vars, artifact_vars, pipeline>>

ReturnModel ==
    /\ trainer.pc = "training"
    /\ trainer.epoch = num_epochs
    /\ trainer' = return_model(trainer)
    /\ UNCHANGED <<registry_vars, kserve_vars, artifact_vars, pipeline>>

TrainerNext == CallTrainer \/ TrainEpoch \/ ReturnModel

TrainerSpec == AllIdle /\ [][TrainerNext]_vars

-----------------------------------------------------------------------------
(* Properties of the trainer step *)

\* C11: pytorch_model_trainer returns an nn.Module, the trained model, for
\* every call, whether its labels argument is empty or not.
C11_TrainerReturnsModule ==
    trainer.pc = "returned" => trainer.result.kind = "nn.Module"

MaxOf(h) == CHOOSE m \in {0} \cup {h[i] : i \in 1..Len(h)} :
                \A i \in 1..Len(h) : h[i] <= m

\* the first epoch, counted from 1, whose validation accuracy is the maximum
FirstBest(h) == CHOOSE i \in 1..Len(h) :
                    h[i] = MaxOf(h) /\ \A j \in 1..(i - 1) : h[j] < MaxOf(h)

Trained == trainer.pc \in {"training", "returned"} /\ trainer.labels = << >>

TrainingInvariant ==
    Trained =>
        LET h == trainer.val_acc_history
        IN  /\ Len(h) = trainer.epoch
            /\ trainer.best_acc = MaxOf(h)
            /\ trainer.pc = "returned" =>
                  /\ Len(h) = num_epochs
                  /\ trainer.result.kind = "nn.Module"
                  /\ trainer.result.wts = trainer.model_wts
                  /\ trainer.result.wts =
                        IF MaxOf(h) > 0 THEN FirstBest(h) ELSE Pretrained

TrainingStep ==
    (trainer.pc = "training" /\ trainer'.pc = "training") =>
        /\ trainer'.best_acc >= trainer.best_acc
        /\ Len(trainer'.val_acc_history) = Len(trainer.val_acc_history) + 1
        /\ SubSeq(trainer'.val_acc_history, 1, Len(trainer.val_acc_history))
              = trainer.val_acc_history

\* C12: train_model returns the model with the weights of the first epoch
\* that reached the highest validation accuracy (a later epoch replaces the
\* snapshot only on a strictly greater accuracy), or the weights from before
\* training if no accuracy exceeded 0; best_acc never decreases, and
\* val_acc_history gets exactly one entry per epoch, in epoch order.
C12_BestWeightsReturned == []TrainingInvariant /\ [][TrainingStep]_vars

\* the maximum reached in the second epoch and again in the fourth
C12_Witness ==
    /\ trainer.pc = "returned"
    /\ trainer.val_acc_history = <<1, 2, 0, 2, 1>>
    /\ trainer.result = Module(2)

-----------------------------------------------------------------------------
(* Saving and loading artifact.json *)

Datatypes == {"torch.nn.Module", "sklearn.base.BaseEstimator"}

Materializers == {"PyTorchModuleMaterializer", "SklearnMaterializer"}

\* the artifacts the metadata store may hand to save_to_json_zenml_artifact
Artifacts ==
    {Artifact(uri, datatype, materializer) :
        uri \in ModelUris, datatype \in Datatypes, materializer \in Materializers}

\* the served-model directories of the deployer step runs
ServedDirs == {Append(OutputUri(n), "kserve") : n \in 1..MaxRuns}

\* json.load: the object whose keys and values the file's text lists in turn
JsonLoad(content) ==
    LET pairs == {i \in 1..Len(content.body) : i % 2 = 1}
    IN  [key \in {content.body[i] : i \in pairs} |->
            content.body[(CHOOSE i \in pairs : content.body[i] = key) + 1]]

\* source_utils.load_source_path_class: the class a source path names
load_source_path_class(source) == [class_at |-> source]

NotLoaded == [outcome |-> None]

load_datatype_for_both(st, model_file_dir) ==
    LET artifact == JsonLoad(st.files[Append(model_file_dir, ARTIFACT_FILE)])
        model_artifact == Artifact(model_file_dir, artifact["datatype"],
                                   artifact["datatype"])
    IN  [outcome |-> "returned",
         model_file_dir |-> model_file_dir,
         artifact |-> model_artifact,
         materializer_class |-> load_source_path_class(model_artifact.materializer),
         model_class |-> load_source_path_class(model_artifact.datatype)]

\* load_from_json_zenml_artifact on a directory that holds artifact.json: the
\* artifact it builds and the classes it resolves to load the model with
load_from_json_zenml_artifact(st, model_file_dir) ==
    LET artifact == JsonLoad(st.files[Append(model_file_dir, ARTIFACT_FILE)])
        model_artifact == Artifact(model_file_dir, artifact["datatype"],
                                   artifact["materializer"])
    IN  [outcome |-> "returned",
         model_file_dir |-> model_file_dir,
         artifact |-> model_artifact,
         materializer_class |-> load_source_path_class(model_artifact.materializer),
         model_class |-> load_source_path_class(model_artifact.datatype)]

SaveArtifact ==
    \E served_model_uri \in ServedDirs, artifact \in Artifacts :
        /\ Append(served_model_uri, ARTIFACT_FILE) \notin DOMAIN files
        /\ LET st == save_to_json_zenml_artifact(State, served_model_uri, artifact)
           IN  /\ files' = st.files
               /\ dirs' = st.dirs
               /\ tmp' = st.tmp
        /\ saved' = (served_model_uri :> artifact) @@ saved
        /\ UNCHANGED <<registry_vars, config, runs, call, loaded, example_vars>>

LoadArtifact ==
    \E model_file_dir \in ServedDirs :
        /\ loaded' =
              IF Append(model_file_dir, ARTIFACT_FILE) \in DOMAIN files
              THEN load_from_json_zenml_artifact(State, model_file_dir)
              ELSE [outcome |-> "FileNotFoundError",
                    model_file_dir |-> model_file_dir]
        /\ UNCHANGED <<registry_vars, kserve_vars, saved, example_vars>>

ArtifactNext == SaveArtifact \/ LoadArtifact

ArtifactSpec == AllIdle /\ [][ArtifactNext]_vars

\* C13: loading from a directory an artifact was saved into builds an
\* artifact with the saved datatype and materializer properties and the
\* directory as its uri, and resolves exactly the materializer class and the
\* model class that the saved properties name.
C13_SaveLoadRoundTrip ==
    loaded.outcome = "returned" =>
        LET was == saved[loaded.model_file_dir]
        IN  /\ loaded.artifact.datatype = was.datatype
            /\ loaded.artifact.materializer = was.materializer
            /\ loaded.artifact.uri = loaded.model_file_dir
            /\ loaded.materializer_class.class_at = was.materializer
            /\ loaded.model_class.class_at = was.datatype

\* an artifact of the first model loaded back from the second served directory
C13_Witness ==
    /\ loaded.outcome = "returned"
    /\ loaded.model_file_dir = Append(OutputUri(2), "kserve")
    /\ saved[loaded.model_file_dir] =
          Artifact(PartialModelUri, "torch.nn.Module", "SklearnMaterializer")
    /\ loaded.artifact.materializer = "SklearnMaterializer"

-----------------------------------------------------------------------------
(* The default branch of prepare_service_config *)

\* C14: prepare_service_config with a predictor other than "tensorflow" and
\* "sklearn" copies no model files and returns a config whose model_uri is
\* the model_uri argument; in every branch the returned config is a copy, so
\* the caller's config.service_config.model_uri stays as it was.
C14_DefaultBranchReusesModelUri ==
    call.fn = "prepare_service_config" =>
        /\ config.service_config.predictor \notin {"tensorflow", "sklearn"} =>
              /\ call.outcome = "returned"
              /\ call.value.model_uri = call.model_uri
              /\ Logged("copy") = {}
              /\ Logged("copy_dir") = {}
              /\ FilesUnder(call.output_artifact_uri) = {}
        /\ config.service_config.model_uri = NoPath
        /\ call.outcome = "returned" =>
              /\ call.value.model_uri # NoPath
              /\ call.value.predictor = config.service_config.predictor
              /\ call.value.model_name = config.service_config.model_name

\* an xgboost call on the second model: its own uri comes back
C14_Witness ==
    /\ LastServiceCall("xgboost")
    /\ call.model_uri = FullModelUri
    /\ call.value.model_uri = FullModelUri
    /\ config.service_config.model_uri = NoPath

-----------------------------------------------------------------------------
(* kserve_pytorch_pipeline *)

Steps ==
    {"build_data_loaders", "trainer", "evaluator", "deployment_trigger", "deployer"}

\* the names bound to each step's return value in the pipeline function
Produces(step) ==
    CASE step = "build_data_loaders" -> {"train_loader", "test_loader"}
      [] step = "trainer" -> {"model"}
      [] step = "evaluator" -> {"accuracy"}
      [] step = "deployment_trigger" -> {"deployment_decision"}
      [] step = "deployer" -> {}

Inputs_deployer_takes_model_only(step) ==
    CASE step = "build_data_loaders" -> {}
      [] step = "trainer" -> {"train_loader"}
      [] step = "evaluator" -> {"model", "test_loader"}
      [] step = "deployment_trigger" -> {"accuracy"}
      [] step = "deployer" -> {"model"}

\* the names each step is called with in the pipeline function
Inputs(step) ==
    CASE step = "build_data_loaders" -> {}
      [] step = "trainer" -> {"train_loader"}
      [] step = "evaluator" -> {"model", "test_loader"}
      [] step = "deployment_trigger" -> {"accuracy"}
      [] step = "deployer" -> {"deployment_decision", "model"}

\* the steps whose outputs a step consumes
Upstream(step) == {s \in Steps : Produces(s) \cap Inputs(step) # {}}

\* what a step may return, given the artifacts it was called with
Outputs(step, consumed) ==
    CASE step = "build_data_loaders" ->
            {[train_loader |-> [dataset |-> d, split |-> "train"],
              test_loader |-> [dataset |-> d, split |-> "test"]] :
                d \in 1..MaxDatasets}
      [] step = "trainer" ->
            {[model |-> [wts |-> w, trained_on |-> consumed.train_loader]] :
                w \in 1..MaxModels}
      [] step = "evaluator" ->
            {[accuracy |-> [value |-> a, of_model |-> consumed.model,
                            on |-> consumed.test_loader]] :
                a \in 0..MaxAccuracy}
      [] step = "deployment_trigger" ->
            {[deployment_decision |->
                [value |-> b, from_accuracy |-> consumed.accuracy]] :
                b \in BOOLEAN}
      [] step = "deployer" -> {<< >>}

StartPipeline ==
    /\ pipeline.pc = "idle"
    /\ pipeline' = [pc |-> "running", order |-> << >>, artifacts |-> << >>,
                    deployed |-> << >>]
    /\ UNCHANGED <<registry_vars, kserve_vars, artifact_vars, trainer>>

\* the orchestrator runs a step once all the steps it consumes from have run
RunStep(step) ==
    /\ pipeline.pc = "running"
    /\ \A i \in 1..Len(pipeline.order) : pipeline.order[i] # step
    /\ \A s \in Upstream(step) :
          \E i \in 1..Len(pipeline.order) : pipeline.order[i] = s
    /\ LET consumed == [n \in Inputs(step) |-> pipeline.artifacts[n]]
       IN  \E out \in Outputs(step, consumed) :
              pipeline' =
                 [pipeline EXCEPT
                    !.order = Append(@, step),
                    !.artifacts = out @@ @,
                    !.deployed = IF step = "deployer" THEN consumed ELSE @]
    /\ UNCHANGED <<registry_vars, kserve_vars, artifact_vars, trainer>>

PipelineNext == StartPipeline \/ \E step \in Steps : RunStep(step)

PipelineSpec == AllIdle /\ [][PipelineNext]_vars

Position(step) == CHOOSE i \in 1..Len(pipeline.order) : pipeline.order[i] = step

Ran(step) == \E i \in 1..Len(pipeline.order) : pipeline.order[i] = step

Before(a, b) == Ran(a) /\ Position(a) < Position(b)

\* C15: the steps of kserve_pytorch_pipeline form a chain of data
\* dependencies, so in every order that respects them the deployer runs
\* last, after the decision was computed from the accuracy of the very model
\* it deploys.
C15_DeployerRunsLast ==
    pipeline.pc = "running" =>
        /\ Ran("trainer") => Before("build_data_loaders", "trainer")
        /\ Ran("evaluator") => Before("trainer", "evaluator")
        /\ Ran("deployment_trigger") => Before("evaluator", "deployment_trigger")
        /\ Ran("deployer") =>
              /\ Before("deployment_trigger", "deployer")
              /\ Position("deployer") = Cardinality(Steps)
              /\ Len(pipeline.order) = Cardinality(Steps)
              /\ pipeline.deployed.deployment_decision =
                    pipeline.artifacts.deployment_decision
              /\ pipeline.deployed.deployment_decision.from_accuracy =
                    pipeline.artifacts.accuracy
              /\ pipeline.deployed.deployment_decision.from_accuracy.of_model =
                    pipeline.deployed.model
              /\ pipeline.deployed.model.trained_on =
                    pipeline.artifacts.train_loader

\* a complete run that deployed the second model on a positive decision
C15_Witness ==
    /\ pipeline.pc = "running"
    /\ Ran("deployer")
    /\ pipeline.deployed.model.wts = 2
    /\ pipeline.deployed.deployment_decision.value
    /\ pipeline.deployed.deployment_decision.from_accuracy.value = MaxAccuracy

====
